---- MODULE Spec2Model ----
(***************************************************************************)
(* Model of the DLPC900 protocol layer of dlpyc900 (class dmd).            *)
(*                                                                         *)
(* The state is the dmd object's tracked display mode together with what   *)
(* the most recent call did on the transport (usb writes, reads, sleeps),  *)
(* the call itself and its outcome (return value or raised exception).     *)
(* Every method is one action; the device's replies are inputs.            *)
(***************************************************************************)
EXTENDS Integers, Sequences, FiniteSets, TLC

VARIABLES
    current_mode,   \* self.current_mode
    trace,          \* transport events of the most recent call, in order
    call,           \* the most recent call: [op, args] and the tracked
                    \* mode it found (before)
    result          \* its outcome: [exc, val]

vars == <<current_mode, trace, call, result>>

(***************************************************************************)
(* Bounds of the model.                                                    *)
(***************************************************************************)
\* payload lengths 0..MaxLen are enumerated for send_command
MaxLen == 520
\* number of payload content generators
MaxGen == 2

(***************************************************************************)
(* Bit strings: Python str of '0'/'1' is a sequence of one-character       *)
(* strings, most significant bit first.                                    *)
(***************************************************************************)
RECURSIVE BinDigits(_)
\* format(a, 'b'): the shortest binary numeral of a >= 0
BinDigits(a) ==
    IF a < 2 THEN << (IF a = 1 THEN "1" ELSE "0") >>
    ELSE Append(BinDigits(a \div 2), IF a % 2 = 1 THEN "1" ELSE "0")

Repeat(x, n) == [i \in 1..n |-> x]

\* format(a, '0{bitlen}b'): zero-padded on the left to at least bitlen digits
number_to_bits(a, bitlen) ==
    LET d == BinDigits(a)
    IN  IF Len(d) >= bitlen THEN d ELSE Repeat("0", bitlen - Len(d)) \o d

RECURSIVE BitsToInt(_)
\* int(bits, 2)
BitsToInt(bits) ==
    IF Len(bits) = 0 THEN 0
    ELSE 2 * BitsToInt(SubSeq(bits, 1, Len(bits) - 1))
         + (IF bits[Len(bits)] = "1" THEN 1 ELSE 0)

Reverse(s) == [i \in 1..Len(s) |-> s[Len(s) + 1 - i]]

Min(a, b) == IF a < b THEN a ELSE b

\* Python slice s[lo:hi] with 0 <= lo, on a 1-based sequence
Slice(s, lo, hi) == SubSeq(s, lo + 1, Min(hi, Len(s)))

\* [int(bits[i:i+8], 2) for i in range(0, len(bits), 8)], then reversed
bits_to_bytes(bits) ==
    LET n == (Len(bits) + 7) \div 8
        a == [k \in 1..n |-> BitsToInt(Slice(bits, 8 * (k - 1), 8 * k))]
    IN  Reverse(a)

(***************************************************************************)
(* send_command: the frame header and the split into 64-byte reports.      *)
(***************************************************************************)
\* flag_string = '1' if mode == 'r' else '0'; flag_string += '1000000'
FlagByte(mode) ==
    bits_to_bytes(<< (IF mode = "r" THEN "1" ELSE "0") >>
                  \o <<"1", "0", "0", "0", "0", "0", "0">>)[1]

\* mutant: the two length bytes in big-endian order
LengthBytesMutant(data) ==
    Reverse(bits_to_bytes(number_to_bits(Len(data) + 2, 16)))

\* temp = bits_to_bytes(number_to_bits(len(data) + 2, 16))
LengthBytes(data) == bits_to_bytes(number_to_bits(Len(data) + 2, 16))

\* buffer after the flag, sequence, length and command bytes were appended
HeaderBuffer(mode, sequence_byte, command, data) ==
    LET temp == LengthBytes(data)
    IN  << FlagByte(mode), sequence_byte, temp[1], temp[2],
           command % 256, (command \div 256) % 256 >>

\* mutant: off by one in the single-report test
FitsOneReportMutant(buffer, data) == Len(buffer) + Len(data) < 66

\* if len(buffer) + len(data) < 65
FitsOneReport(buffer, data) == Len(buffer) + Len(data) < 65

\* [0x00] * n is the empty list when n <= 0
Zeros(n) == IF n > 0 THEN Repeat(0, n) ELSE <<>>

\* mutant: a short chunk is written as it is
PadChunkMutant(chunk) == chunk

\* if len(chunk) < 64: chunk.extend([0x00] * (64 - len(chunk)))
PadChunk(chunk) ==
    IF Len(chunk) < 64 THEN chunk \o Zeros(64 - Len(chunk)) ELSE chunk

\* mutant: the continuation starts one byte late
AfterFirstReportMutant(data) == Slice(data, 59, Len(data))

\* remaining_data = remaining_data[58:]
AfterFirstReport(data) == Slice(data, 58, Len(data))

RECURSIVE ContinuationReports(_)
\* while len(remaining_data) > 0: chunk = remaining_data[:64]; ...
ContinuationReports(remaining_data) ==
    IF Len(remaining_data) > 0
    THEN << PadChunk(Slice(remaining_data, 0, 64)) >>
         \o ContinuationReports(Slice(remaining_data, 64, Len(remaining_data)))
    ELSE <<>>

\* the buffers handed to dev.write(1, ...), in order
Reports(mode, sequence_byte, command, data) ==
    LET buffer == HeaderBuffer(mode, sequence_byte, command, data)
    IN  IF FitsOneReport(buffer, data)
        THEN LET b == buffer \o data
             IN  << b \o Zeros(64 - Len(b)) >>
        ELSE << buffer \o Slice(data, 0, 58) >>
             \o ContinuationReports(AfterFirstReport(data))

(***************************************************************************)
(* Transport events and outcomes.                                          *)
(***************************************************************************)
WriteEv(buf) == [op |-> "write", ep |-> 1, buf |-> buf, ms |-> 0]
ReadEv(reply) == [op |-> "read", ep |-> 129, buf |-> reply, ms |-> 0]
SleepEv(ms) == [op |-> "sleep", ep |-> 0, buf |-> <<>>, ms |-> ms]

Return(v) == [exc |-> "", val |-> v]
Raise(e) == [exc |-> e, val |-> <<>>]
None == <<"None">>

\* mutant: the data is taken after six bytes, as if the reply had a command
ReplyDataMutant(reply, length) == Slice(reply, 6, 6 + length)

\* data = reply[4:4+length]
ReplyData(reply, length) == Slice(reply, 4, 4 + length)

\* parse_reply on an array: indexing past the end raises IndexError
parse_reply(reply) ==
    IF Len(reply) < 4 THEN Raise("IndexError")
    ELSE LET length == reply[3] + 256 * reply[4]
         IN  Return([error_flag |-> (reply[1] \div 32) % 2 = 1,
                     flag_byte |-> number_to_bits(reply[1], 8),
                     sequence_byte |-> reply[2],
                     length |-> length,
                     data |-> ReplyData(reply, length)])

\* mutant: the reply is fetched for write commands as well
SendTraceMutant(mode, sequence_byte, command, data, reply) ==
    [i \in 1..Len(Reports(mode, sequence_byte, command, data)) |->
        WriteEv(Reports(mode, sequence_byte, command, data)[i])]
    \o << SleepEv(100), ReadEv(reply) >>

\* what send_command does on the transport, given the device's reply
SendTrace(mode, sequence_byte, command, data, reply) ==
    LET reps == Reports(mode, sequence_byte, command, data)
        writes == [i \in 1..Len(reps) |-> WriteEv(reps[i])]
    IN  IF mode = "r"
        THEN writes \o << SleepEv(100), ReadEv(reply) >>
        ELSE writes

\* what send_command returns or raises
SendResult(mode, reply) ==
    IF mode = "r"
    THEN IF Len(reply) = 0 THEN Raise("IndexError")   \* answer[0]
         ELSE parse_reply(reply)
    ELSE Return(None)

(***************************************************************************)
(* Inputs.                                                                 *)
(***************************************************************************)
Modes == {"r", "w"}
SequenceBytes == {0, 34}
Commands == {512, 6699}
PayloadLens == 0..MaxLen

\* payload contents: generator 1 counts 1,2,..,255,1,.. (never zero),
\* generator 2 steps by 7 through all byte values, others are all 0xFF
Payload(len, gen) ==
    [i \in 1..len |-> IF gen = 1 THEN 1 + ((i - 1) % 255)
                      ELSE IF gen = 2 THEN (7 * i) % 256
                      ELSE 255]

\* a device reply: flag, sequence, 16-bit length, data, padded to 64 bytes
Reply(flag, seq, data) ==
    LET b == << flag, seq, Len(data) % 256, Len(data) \div 256 >> \o data
    IN  b \o Zeros(64 - Len(b))

SendReplies == { Reply(0, 0, <<1>>), <<>> }

Pending == [exc |-> "pending", val |-> <<>>]

\* the object after __init__, before any call
Init ==
    /\ current_mode = "pattern"
    /\ trace = <<>>
    /\ call = [op |-> "init", args |-> <<>>, before |-> "pattern"]
    /\ result = Return(None)

\* a send_command call about to run, for each enumerated input
InitSend ==
    /\ current_mode = "pattern"
    /\ trace = <<>>
    /\ \E mode \in Modes, sequence_byte \in SequenceBytes, command \in Commands,
          len \in PayloadLens, gen \in 1..MaxGen :
            call = [op |-> "send_command",
                    args |-> <<mode, sequence_byte, command, Payload(len, gen)>>,
                    before |-> "pattern"]
    /\ result = Pending

send_command(reply) ==
    /\ call.op = "send_command"
    /\ result.exc = "pending"
    /\ trace' = SendTrace(call.args[1], call.args[2], call.args[3],
                          call.args[4], reply)
    /\ result' = SendResult(call.args[1], reply)
    /\ UNCHANGED <<current_mode, call>>

\* the round trip: parse_reply applied to the first report the call wrote
parse_first_report ==
    /\ call.op = "send_command"
    /\ result.exc # "pending"
    /\ result' = parse_reply(trace[1].buf)
    /\ call' = [call EXCEPT !.op = "parse_first_report"]
    /\ UNCHANGED <<current_mode, trace>>

NextSend ==
    \/ \E reply \in SendReplies : send_command(reply)
    \/ parse_first_report

SpecSend == InitSend /\ [][NextSend]_vars

(***************************************************************************)
(* A session: send_command called again and again on one object.  Here     *)
(* trace keeps the transport events of all calls so far and call.args the  *)
(* list of the calls made, each as <<mode, sequence_byte, command, data>>. *)
(***************************************************************************)
\* number of calls in a session
MaxCalls == 3

\* payload lengths of the session's commands: none, one report exactly,
\* one byte more, three reports
SessionLens == {0, 58, 59, 130}

SessionCommand(mode, len, reply) ==
    /\ Len(call.args) < MaxCalls
    /\ trace' = trace \o SendTrace(mode, Len(call.args), 6699,
                                   Payload(len, 1), reply)
    /\ result' = SendResult(mode, reply)
    /\ call' = [op |-> "session",
                args |-> Append(call.args,
                                << mode, Len(call.args), 6699,
                                   Payload(len, 1) >>),
                before |-> current_mode]
    /\ UNCHANGED current_mode

NextSession ==
    \E mode \in Modes, len \in SessionLens, reply \in SendReplies :
        SessionCommand(mode, len, reply)

SpecSession == Init /\ [][NextSession]_vars

(***************************************************************************)
(* parse_reply on raw replies of every shape.                              *)
(***************************************************************************)
\* raw replies of 0..MaxRawLen bytes are enumerated
MaxRawLen == 10

RawLens == (0..MaxRawLen) \cup {64, 270}
RawLengthFields == (0..MaxRawLen) \cup {60, 61, 256, 266, 267}
RawFlags == {0, 32, 192, 224}

\* the first n bytes of: flag, sequence 7, the length field, data 1, 2, ..
Raw(n, flag, lf) ==
    Slice(<< flag, 7, lf % 256, lf \div 256 >> \o Payload(n, 1), 0, n)

InitParse ==
    /\ current_mode = "pattern"
    /\ trace = <<>>
    /\ \E n \in RawLens, flag \in RawFlags, lf \in RawLengthFields :
            call = [op |-> "parse_reply", args |-> << Raw(n, flag, lf) >>,
                    before |-> "pattern"]
    /\ result = Pending

parse_reply_call ==
    /\ call.op = "parse_reply"
    /\ result.exc = "pending"
    /\ result' = parse_reply(call.args[1])
    /\ UNCHANGED <<current_mode, trace, call>>

NextParse == parse_reply_call

SpecParse == InitParse /\ [][NextParse]_vars

(***************************************************************************)
(* Display mode: set_display_mode and get_display_mode.                    *)
(***************************************************************************)
\* self.display_modes and self.display_modes_inv
display_modes ==
    ("video" :> 0) @@ ("pattern" :> 1) @@ ("video-pattern" :> 2) @@ ("otf" :> 3)

display_modes_inv ==
    (0 :> "video") @@ (1 :> "pattern") @@ (2 :> "video-pattern") @@ (3 :> "otf")

RaiseMsg(e, m) == [exc |-> e, val |-> <<m>>]

\* mutant: the tracked mode is left alone by a read
TrackedAfterGetMutant(cur, mode_read) == cur

\* self.current_mode = self.display_modes_inv[ans[-1][0]]
TrackedAfterGet(cur, mode_read) == mode_read

\* the rest of get_display_mode once send_command has answered
GetOutcome(cur, tr, ans) ==
    IF ans.exc # ""
    THEN [cur |-> cur, trace |-> tr, res |-> ans]
    ELSE IF Len(ans.val.data) = 0                            \* ans[-1][0]
    THEN [cur |-> cur, trace |-> tr, res |-> Raise("IndexError")]
    ELSE IF ans.val.data[1] \notin DOMAIN display_modes_inv
    THEN [cur |-> cur, trace |-> tr, res |-> Raise("KeyError")]
    ELSE [cur |-> TrackedAfterGet(cur, display_modes_inv[ans.val.data[1]]),
          trace |-> tr,
          res |-> Return(TrackedAfterGet(cur, display_modes_inv[ans.val.data[1]]))]

\* get_display_mode as a function of the tracked mode and the device's
\* reply: the new tracked mode, the transport events and the outcome
GetDisplayMode(cur, reply) ==
    GetOutcome(cur, SendTrace("r", 0, 6683, <<>>, reply), SendResult("r", reply))

\* mutant: video-pattern may be requested from any mode
IllegalTransitionMutant(mode, cur) == FALSE

\* elif mode == 'video-pattern' and self.current_mode != 'video'
IllegalTransition(mode, cur) == mode = "video-pattern" /\ cur # "video"

\* mutant: any failure of the first read is retried
RetryOnMutant(exc) == exc # ""

\* except IndexError
RetryOn(exc) == exc = "IndexError"

\* mutant: the read-back is not compared with the request
ActivationFailedMutant(new_display_mode, mode) == FALSE

\* if new_display_mode != mode
ActivationFailed(new_display_mode, mode) == new_display_mode # mode

\* the second read, made after the first one, and what both leave behind
SecondRead(g1, g2) ==
    [cur |-> g2.cur, trace |-> g1.trace \o g2.trace, res |-> g2.res]

\* try: new_display_mode = self.get_display_mode()
\* except IndexError: new_display_mode = self.get_display_mode()
ReadWithRetry(g1, reply2) ==
    IF RetryOn(g1.res.exc)
    THEN SecondRead(g1, GetDisplayMode(g1.cur, reply2))
    ELSE g1

\* the end of set_display_mode: w is what was sent before the read, g the read
Confirm(w, g, mode) ==
    IF g.res.exc # ""
    THEN [cur |-> g.cur, trace |-> w \o g.trace, res |-> g.res]
    ELSE IF ActivationFailed(g.res.val, mode)
    THEN [cur |-> g.cur, trace |-> w \o g.trace,
          res |-> RaiseMsg("ConnectionError", "Mode activation failed.")]
    ELSE [cur |-> g.cur, trace |-> w \o g.trace, res |-> Return(None)]

\* mutant: the settle delay is taken for the video modes only
SetDisplayModeMutant(cur, mode, reply1, reply2) ==
    IF mode \notin DOMAIN display_modes
    THEN [cur |-> cur, trace |-> <<>>,
          res |-> RaiseMsg("ValueError", "mode unknown")]
    ELSE IF IllegalTransition(mode, cur)
    THEN [cur |-> cur, trace |-> <<>>,
          res |-> RaiseMsg("ValueError", "first change to Video Mode")]
    ELSE Confirm(SendTrace("w", 0, 6683, << display_modes[mode] >>, <<>>)
                     \o (IF mode \in {"video", "video-pattern"}
                         THEN << SleepEv(500) >> ELSE <<>>),
                 ReadWithRetry(GetDisplayMode(cur, reply1), reply2),
                 mode)

\* set_display_mode as a function of the tracked mode, the requested mode
\* and the device's replies to the first and to the repeated mode read
SetDisplayMode(cur, mode, reply1, reply2) ==
    IF mode \notin DOMAIN display_modes
    THEN [cur |-> cur, trace |-> <<>>,
          res |-> RaiseMsg("ValueError", "mode unknown")]
    ELSE IF IllegalTransition(mode, cur)
    THEN [cur |-> cur, trace |-> <<>>,
          res |-> RaiseMsg("ValueError", "first change to Video Mode")]
    ELSE Confirm(SendTrace("w", 0, 6683, << display_modes[mode] >>, <<>>)
                     \o << SleepEv(500) >>,
                 ReadWithRetry(GetDisplayMode(cur, reply1), reply2),
                 mode)

\* what the device may answer to a mode read: each mode code, an
\* undocumented code, a reply without data, a cut-off reply and no bytes
ModeReplies ==
    { Reply(192, 0, <<c>>) : c \in {0, 1, 2, 3, 7} }
    \cup { Reply(192, 0, <<>>), <<192, 0>>, <<>> }

RequestedModes == DOMAIN display_modes \cup {"bogus"}

\* a method's effect on the object and on the transport
Effect(out) ==
    /\ current_mode' = out.cur
    /\ trace' = out.trace
    /\ result' = out.res

get_display_mode(reply) ==
    /\ call' = [op |-> "get_display_mode", args |-> <<>>,
                before |-> current_mode]
    /\ Effect(GetDisplayMode(current_mode, reply))

set_display_mode(mode, reply1, reply2) ==
    /\ call' = [op |-> "set_display_mode", args |-> <<mode>>,
                before |-> current_mode]
    /\ Effect(SetDisplayMode(current_mode, mode, reply1, reply2))

NextMode ==
    \/ \E reply \in ModeReplies : get_display_mode(reply)
    \/ \E mode \in RequestedModes, reply1 \in ModeReplies,
          reply2 \in ModeReplies : set_display_mode(mode, reply1, reply2)

SpecMode == Init /\ [][NextMode]_vars

(***************************************************************************)
(* Status checks.                                                          *)
(***************************************************************************)
\* Python compares a str with an int as unequal, whatever their values
str_eq_int(s, n) == FALSE

\* ansbit[0] == ansbit[2] == 0
CommunicationOk(ansbit) == ansbit[1] = ansbit[3] /\ str_eq_int(ansbit[3], 0)

CheckCommunicationStatus(reply) ==
    LET ans == SendResult("r", reply)
    IN  IF ans.exc # "" THEN ans
        ELSE IF Len(ans.val.data) = 0 THEN Raise("IndexError")
        ELSE IF ~CommunicationOk(number_to_bits(ans.val.data[1], 8))
        THEN RaiseMsg("DMDerror", "Controller cannot communicate with DMD")
        ELSE Return(None)

StatusReplies ==
    { Reply(192, 10, <<b>>) : b \in 0..255 } \cup { Reply(192, 10, <<>>), <<>> }

check_communication_status(reply) ==
    /\ trace' = SendTrace("r", 10, 6729, <<>>, reply)
    /\ result' = CheckCommunicationStatus(reply)
    /\ call' = [op |-> "check_communication_status", args |-> <<>>,
                before |-> current_mode]
    /\ UNCHANGED current_mode

NextStatus == \E reply \in StatusReplies : check_communication_status(reply)

SpecStatus == Init /\ [][NextStatus]_vars

\* print(...): what a method writes to the standard output
PrintEv(msg) == [op |-> "print", ep |-> 0, buf |-> <<msg>>, ms |-> 0]

\* a status method up to ans[-1][0]: how reading the status byte fails, or
\* a normal return when there is a status byte
StatusOutcome(ans) ==
    IF ans.exc # "" THEN ans
    ELSE IF Len(ans.val.data) = 0 THEN Raise("IndexError")
    ELSE Return(None)

\* ans[-1][0]
StatusByteOf(ans) == ans.val.data[1]

\* if ansbit[0] == 0
MemoryTestFailed(ansbit) == str_eq_int(ansbit[1], 0)

SystemStatusOf(byte) ==
    IF MemoryTestFailed(number_to_bits(byte, 8))
    THEN RaiseMsg("DMDerror", "Internal Memory Test failed")
    ELSE Return(None)

CheckSystemStatus(reply) ==
    IF StatusOutcome(SendResult("r", reply)).exc # ""
    THEN StatusOutcome(SendResult("r", reply))
    ELSE SystemStatusOf(StatusByteOf(SendResult("r", reply)))

check_system_status(reply) ==
    /\ trace' = SendTrace("r", 10, 6667, <<>>, reply)
    /\ result' = CheckSystemStatus(reply)
    /\ call' = [op |-> "check_system_status", args |-> <<>>,
                before |-> current_mode]
    /\ UNCHANGED current_mode

NextSystemStatus == \E reply \in StatusReplies : check_system_status(reply)

SpecSystemStatus == Init /\ [][NextSystemStatus]_vars

\* the tests of get_hardware_status, in order: the index into ansbit, the
\* character that counts as an error, the line for '0' and the line for '1'
HardwareTests ==
    << [at |-> 0, bad |-> "0",
        zero |-> "Internal Initialization Error",
        one |-> "Internal Initialization Successful"],
       [at |-> 1, bad |-> "1",
        zero |-> "System is compatible",
        one |-> "Incompatible Controller or DMD, or wrong firmware loaded on system"],
       [at |-> 2, bad |-> "1",
        zero |-> "DMD Reset Controller has no errors",
        one |-> "DMD Reset Controller Error: Multiple overlapping bias or reset operations are accessing the same DMD block"],
       [at |-> 3, bad |-> "1",
        zero |-> "No Forced Swap Errors",
        one |-> "Forced Swap Error occurred"],
       [at |-> 4, bad |-> "",
        zero |-> "No Secondary Controller Present",
        one |-> "Secondary Controller Present and Ready"],
       [at |-> 6, bad |-> "1",
        zero |-> "Sequencer Abort Status reports no errors",
        one |-> "Sequencer has detected an error condition that caused an abort"],
       [at |-> 7, bad |-> "1",
        zero |-> "Sequencer reports no errors",
        one |-> "Sequencer detected an error"] >>

\* ansbit[i] of a Python str, on the 1-based sequence
CharAt(ansbit, i) == ansbit[i + 1]

RECURSIVE HardwareErrors(_, _)
\* errors after the first k tests
HardwareErrors(ansbit, k) ==
    IF k = 0 THEN 0
    ELSE HardwareErrors(ansbit, k - 1)
         + (IF CharAt(ansbit, HardwareTests[k].at) = HardwareTests[k].bad
            THEN 1 ELSE 0)

\* statusmessage, one element per line
HardwareMessage(ansbit) ==
    [k \in 1..Len(HardwareTests) |->
        IF CharAt(ansbit, HardwareTests[k].at) = "0"
        THEN HardwareTests[k].zero ELSE HardwareTests[k].one]

HardwareStatusOf(byte) ==
    Return([statusmessage |-> HardwareMessage(number_to_bits(byte, 8)),
            errors |-> HardwareErrors(number_to_bits(byte, 8),
                                      Len(HardwareTests))])

GetHardwareStatus(reply) ==
    IF StatusOutcome(SendResult("r", reply)).exc # ""
    THEN StatusOutcome(SendResult("r", reply))
    ELSE HardwareStatusOf(StatusByteOf(SendResult("r", reply)))

get_hardware_status(reply) ==
    /\ trace' = SendTrace("r", 10, 6666, <<>>, reply)
    /\ result' = GetHardwareStatus(reply)
    /\ call' = [op |-> "get_hardware_status", args |-> <<>>,
                before |-> current_mode]
    /\ UNCHANGED current_mode

NextHardwareStatus == \E reply \in StatusReplies : get_hardware_status(reply)

SpecHardwareStatus == Init /\ [][NextHardwareStatus]_vars

\* tuple(map(int, a))
bits_to_bools(a) == [i \in 1..Len(a) |-> IF a[i] = "1" THEN 1 ELSE 0]

\* bits_to_bools(ansbit)[:6]
MainStatusOf(byte) == Return(Slice(bits_to_bools(number_to_bits(byte, 8)), 0, 6))

GetMainStatus(reply) ==
    IF StatusOutcome(SendResult("r", reply)).exc # ""
    THEN StatusOutcome(SendResult("r", reply))
    ELSE MainStatusOf(StatusByteOf(SendResult("r", reply)))

get_main_status(reply) ==
    /\ trace' = SendTrace("r", 10, 6668, <<>>, reply)
    /\ result' = GetMainStatus(reply)
    /\ call' = [op |-> "get_main_status", args |-> <<>>,
                before |-> current_mode]
    /\ UNCHANGED current_mode

NextMainStatus == \E reply \in StatusReplies : get_main_status(reply)

SpecMainStatus == Init /\ [][NextMainStatus]_vars

\* error_dict
error_dict ==
    (1 :> "Batch file checksum error") @@ (2 :> "Device failure")
    @@ (3 :> "Invalid command number")
    @@ (4 :> "Incompatible controller and DMD combination")
    @@ (5 :> "Command not allowed in current mode")
    @@ (6 :> "Invalid command parameter")
    @@ (7 :> "Item referred by the parameter is not present")
    @@ (8 :> "Out of resource (RAM or Flash)")
    @@ (9 :> "Invalid BMP compression type")
    @@ (10 :> "Pattern bit number out of range")
    @@ (11 :> "Pattern BMP not present in flash")
    @@ (12 :> "Pattern dark time is out of range")
    @@ (13 :> "Signal delay parameter is out of range")
    @@ (14 :> "Pattern exposure time is out of range")
    @@ (15 :> "Pattern number is out of range")
    @@ (16 :> "Invalid pattern definition (errors other than 9-15)")
    @@ (17 :> "Pattern image memory address is out of range")
    @@ (255 :> "Internal Error")

\* error_dict[code], or f"Undocumented error [{code}]" on KeyError
ErrorMessage(code) ==
    IF code \in DOMAIN error_dict THEN error_dict[code]
    ELSE "Undocumented error [" \o ToString(code) \o "]"

\* what check_for_error prints: nothing without data or with code 0
ErrorPrints(ans) ==
    IF ans.exc # "" THEN <<>>
    ELSE IF Len(ans.val.data) = 0 THEN <<>>
    ELSE IF ans.val.data[1] = 0 THEN <<>>
    ELSE << PrintEv(ErrorMessage(ans.val.data[1])) >>

\* what check_for_error returns: None on every path that ends
CheckForError(ans) == IF ans.exc # "" THEN ans ELSE Return(None)

check_for_error(reply) ==
    /\ trace' = SendTrace("r", 34, 256, <<>>, reply)
                    \o ErrorPrints(SendResult("r", reply))
    /\ result' = CheckForError(SendResult("r", reply))
    /\ call' = [op |-> "check_for_error", args |-> <<>>,
                before |-> current_mode]
    /\ UNCHANGED current_mode

ErrorReplies ==
    { Reply(192, 34, <<b>>) : b \in 0..255 } \cup { Reply(192, 34, <<>>), <<>> }

NextErrorCheck == \E reply \in ErrorReplies : check_for_error(reply)

SpecErrorCheck == Init /\ [][NextErrorCheck]_vars

(***************************************************************************)
(* Pattern look-up table: setup_pattern_LUT_definition.                    *)
(***************************************************************************)
RECURSIVE BitAnd(_, _)
\* a & b on non-negative integers
BitAnd(a, b) ==
    IF a = 0 \/ b = 0 THEN 0
    ELSE (a % 2) * (b % 2) + 2 * BitAnd(a \div 2, b \div 2)

RECURSIVE BitOr(_, _)
\* a | b on non-negative integers
BitOr(a, b) ==
    IF a = 0 THEN b
    ELSE IF b = 0 THEN a
    ELSE (IF a % 2 = 1 \/ b % 2 = 1 THEN 1 ELSE 0)
         + 2 * BitOr(a \div 2, b \div 2)

\* a << n and a >> n
Shl(a, n) == a * (2 ^ n)
Shr(a, n) == a \div (2 ^ n)

\* int(flag) of a bool
BoolInt(b) == IF b THEN 1 ELSE 0

\* byte_5: in Python << binds tighter than &, so each line masks the value
\* with the shifted mask
LutByte5(clear_after_exposure, bitdepth, color, wait_for_trigger) ==
    BitOr(BitOr(BitOr(BitOr(0, BitAnd(clear_after_exposure, 1)),
                      BitAnd(bitdepth - 1, Shl(7, 1))),
                BitAnd(color, Shl(7, 4))),
          BitAnd(wait_for_trigger, Shl(1, 7)))

\* byte_9, with the same precedence
LutByte9(disable_pattern_2_trigger_out, extended_bit_depth) ==
    BitOr(BitOr(0, BitAnd(disable_pattern_2_trigger_out, 1)),
          BitAnd(extended_bit_depth, Shl(1, 1)))

\* [(x & 0xFF), ((x >> 8) & 0xFF)] and the three-byte form
LowBytes2(x) == << BitAnd(x, 255), BitAnd(Shr(x, 8), 255) >>
LowBytes3(x) ==
    << BitAnd(x, 255), BitAnd(Shr(x, 8), 255), BitAnd(Shr(x, 16), 255) >>

\* byte_10_11
LutBytes1011(image_pattern_index, bit_position) ==
    << LowBytes2(image_pattern_index)[1],
       BitOr(LowBytes2(image_pattern_index)[2],
             Shl(BitAnd(bit_position, 31), 3)) >>

\* payload of setup_pattern_LUT_definition; a is the argument tuple
\* (pattern_index, disable_pattern_2_trigger_out, extended_bit_depth,
\*  exposuretime, darktime, color, bitdepth, image_pattern_index,
\*  bit_position); clear_after_exposure and wait_for_trigger are fixed to 0
LutPayload(a) ==
    LowBytes2(a[1]) \o LowBytes3(a[4])
    \o << LutByte5(0, a[7], a[6], 0) >>
    \o LowBytes3(a[5])
    \o << LutByte9(BoolInt(a[2]), BoolInt(a[3])) >>
    \o LutBytes1011(a[8], a[9])

LutPatternIndexes == {0, 399}
LutTimes == {15000, 16777215}
LutDarkTimes == {0, 70000}
LutColors == 0..7
LutBitDepths == 1..8
LutImageIndexes == {0, 2047}
LutBitPositions == {0, 23}

\* payload of start_pattern_from_LUT: byte_01 + byte_25
StartPayload(nr_of_LUT_entries, nr_of_patterns_to_display) ==
    bits_to_bytes(number_to_bits(nr_of_LUT_entries, 10))
    \o bits_to_bytes(number_to_bits(nr_of_patterns_to_display, 32))

LutEntryCounts == 0..1023
DisplayCounts == {0, 1, 16909060, 2147483647}

InitLut ==
    /\ current_mode = "pattern"
    /\ trace = <<>>
    /\ \/ \E pattern_index \in LutPatternIndexes, dis \in BOOLEAN,
             ext \in BOOLEAN, exposuretime \in LutTimes,
             darktime \in LutDarkTimes, color \in LutColors,
             bitdepth \in LutBitDepths,
             image_pattern_index \in LutImageIndexes,
             bit_position \in LutBitPositions :
                call = [op |-> "setup_pattern_LUT_definition",
                        args |-> << pattern_index, dis, ext, exposuretime,
                                    darktime, color, bitdepth,
                                    image_pattern_index, bit_position >>,
                        before |-> "pattern"]
       \/ \E nr_of_LUT_entries \in LutEntryCounts,
             nr_of_patterns_to_display \in DisplayCounts :
                call = [op |-> "start_pattern_from_LUT",
                        args |-> << nr_of_LUT_entries,
                                    nr_of_patterns_to_display >>,
                        before |-> "pattern"]
    /\ result = Pending

setup_pattern_LUT_definition ==
    /\ call.op = "setup_pattern_LUT_definition"
    /\ result.exc = "pending"
    /\ trace' = SendTrace("w", 1, 6708, LutPayload(call.args), <<>>)
    /\ result' = Return(None)
    /\ UNCHANGED <<current_mode, call>>

start_pattern_from_LUT ==
    /\ call.op = "start_pattern_from_LUT"
    /\ result.exc = "pending"
    /\ trace' = SendTrace("w", 1, 6705,
                          StartPayload(call.args[1], call.args[2]), <<>>)
    /\ result' = Return(None)
    /\ UNCHANGED <<current_mode, call>>

NextLut == setup_pattern_LUT_definition \/ start_pattern_from_LUT

SpecLut == InitLut /\ [][NextLut]_vars

(***************************************************************************)
(* Pattern on the fly: definepattern, setbmp, bmpload, defsequence.        *)
(* A method's run is the record of the transport events it caused and how  *)
(* it ended.                                                               *)
(***************************************************************************)
\* the methods class dmd defines
DmdMethods ==
    {"__init__", "__enter__", "__exit__", "send_command",
     "get_hardware_status", "check_communication_status",
     "check_system_status", "get_main_status", "get_hardware",
     "check_for_error", "set_port_clock_definition",
     "get_port_clock_definition", "set_input_source", "get_input_source",
     "lock_displayport", "lock_hdmi", "lock_release", "get_source_lock",
     "set_display_mode", "get_display_mode", "start_pattern",
     "pause_pattern", "stop_pattern", "start_pattern_from_LUT",
     "setup_pattern_LUT_definition", "standby", "wakeup", "reset",
     "idle_on", "idle_off", "get_current_powermode", "set_flip_longaxis",
     "set_flip_shortaxis", "definepattern", "setbmp", "bmpload",
     "defsequence"}

Run(tr, res) == [trace |-> tr, result |-> res]

\* self.<name>(...) for a name used without arguments of interest: the
\* attribute lookup raises AttributeError when the class has no such method
SelfCall(name) ==
    IF name \in DmdMethods THEN Return(None) ELSE Raise("AttributeError")

\* a run followed by self.<name>()
ThenSelfCall(tr, name) == Run(tr, SelfCall(name))

\* mutant: the options byte without its leading constant bit
OptionsByteMutant(bitdepth, color, triggerin) ==
    << "0", (IF triggerin THEN "1" ELSE "0") >>
    \o color \o number_to_bits(bitdepth - 1, 3)

\* optionsbyte of definepattern, a bit string; color is a bit string
OptionsByte(bitdepth, color, triggerin) ==
    << (IF triggerin THEN "1" ELSE "0") >>
    \o color \o number_to_bits(bitdepth - 1, 3) \o <<"1">>

\* payload of definepattern; a is the argument tuple (index, exposure,
\* bitdepth, color, triggerin, darktime, triggerout, patind, bitpos)
DefinePatternPayload(a) ==
    bits_to_bytes(number_to_bits(a[1], 16))
    \o bits_to_bytes(number_to_bits(a[2], 24))
    \o << bits_to_bytes(OptionsByte(a[3], a[4], a[5]))[1] >>
    \o bits_to_bytes(number_to_bits(a[6], 24))
    \o << bits_to_bytes(number_to_bits(a[7], 8))[1] >>
    \o bits_to_bytes(number_to_bits(a[9], 5) \o number_to_bits(a[8], 11))

\* definepattern(a): a is the argument tuple in the order of the signature
DefinePattern(a) ==
    ThenSelfCall(SendTrace("w", 0, 6708, DefinePatternPayload(a), <<>>),
                 "check_for_errors")

\* payload of setbmp
SetBmpPayload(index, size) ==
    bits_to_bytes(Repeat("0", 11) \o number_to_bits(index, 5))
    \o bits_to_bytes(number_to_bits(size, 32))

SetBmp(index, size) ==
    ThenSelfCall(SendTrace("w", 0, 6698, SetBmpPayload(index, size), <<>>),
                 "check_for_errors")

\* bytes per bulk-load packet
BmpChunk == 504

\* packnum = size // 504 + 1
PackNum(size) == size \div BmpChunk + 1

\* bits of iteration i
BmpBits(size, i) ==
    IF i < PackNum(size) - 1 THEN BmpChunk ELSE size % BmpChunk

\* payload of iteration i, counter image bytes having been consumed
BmpPayload(image, size, i, counter) ==
    SubSeq(bits_to_bytes(number_to_bits(BmpBits(size, i), 16)), 1, 2)
    \o [j \in 1..BmpBits(size, i) |-> image[counter + j]]

\* print (i, packnum) every hundredth iteration
BmpPrint(size, i) ==
    IF i % 100 = 0
    THEN << PrintEv(ToString(i) \o " " \o ToString(PackNum(size))) >>
    ELSE <<>>

RECURSIVE BmpIterations(_, _, _, _)
\* the for loop of bmpload from iteration i on
BmpIterations(image, size, i, counter) ==
    IF i >= PackNum(size) THEN Run(<<>>, Return(None))
    ELSE IF counter + BmpBits(size, i) > Len(image)
    THEN Run(BmpPrint(size, i), Raise("IndexError"))       \* image[counter]
    ELSE LET step == ThenSelfCall(
                        BmpPrint(size, i)
                        \o SendTrace("w", 17, 6699,
                                     BmpPayload(image, size, i, counter),
                                     <<>>),
                        "check_for_errors")
         IN  IF step.result.exc # "" THEN step
             ELSE LET rest == BmpIterations(image, size, i + 1,
                                            counter + BmpBits(size, i))
                  IN  Run(step.trace \o rest.trace, rest.result)

BmpLoad(image, size) == BmpIterations(image, size, 0, 0)

\* planes per stored bitmap
GroupPlaneCount == 24

\* one run after another: an exception ends the sequence
AndThen(first, second) ==
    IF first.result.exc # "" THEN first
    ELSE Run(first.trace \o second.trace, second.result)

\* encode(imagedata) of dlpyc900.erle: a blob determined by the planes it
\* is given, and its byte count
EncodeBytes(planes) ==
    [k \in 1..(2 * Len(planes)) |->
        IF k % 2 = 1 THEN planes[(k + 1) \div 2] % 256 ELSE Len(planes)]
Encode(planes) ==
    [imagedata |-> EncodeBytes(planes), size |-> Len(EncodeBytes(planes))]

\* (num-1)//24, the index of the last group
LastGroup(num) == (num - 1) \div GroupPlaneCount

\* arr[i*24:(i+1)*24] for a full group, arr[i*24:] for the last one
GroupPlanes(arr, i) ==
    IF i < LastGroup(Len(arr))
    THEN Slice(arr, i * GroupPlaneCount, (i + 1) * GroupPlaneCount)
    ELSE Slice(arr, i * GroupPlaneCount, Len(arr))

RECURSIVE GroupPatterns(_, _, _, _)
\* for j in range(j, hi): self.definepattern(j, exp[j], 1, '111', ti[j],
\* dt[j], to[j], i, j - i*24); a is the argument tuple of defsequence
GroupPatterns(a, i, j, hi) ==
    IF j >= hi THEN Run(<<>>, Return(None))
    ELSE IF j >= Len(a[2]) \/ j >= Len(a[3]) \/ j >= Len(a[4])
            \/ j >= Len(a[5])
    THEN Run(<<>>, Raise("IndexError"))
    ELSE AndThen(DefinePattern(<< j, a[2][j + 1], 1, <<"1", "1", "1">>,
                                  a[3][j + 1], a[4][j + 1], a[5][j + 1], i,
                                  j - i * GroupPlaneCount >>),
                 GroupPatterns(a, i, j + 1, hi))

RECURSIVE GroupLoop(_, _)
\* the first for loop of defsequence from group i on
GroupLoop(a, i) ==
    LET num == Len(a[1])
    IN  IF i > LastGroup(num) THEN Run(<<>>, Return(None))
        ELSE AndThen(
                AndThen(Run(<< PrintEv("merging..."), PrintEv("encoding...") >>,
                            Return(None)),
                        GroupPatterns(a, i, i * GroupPlaneCount,
                                      IF i < LastGroup(num)
                                      THEN (i + 1) * GroupPlaneCount
                                      ELSE num)),
                GroupLoop(a, i + 1))

RECURSIVE UploadLoop(_, _)
\* the second for loop of defsequence from iteration i on
UploadLoop(a, i) ==
    LET num == Len(a[1])
        g == LastGroup(num) - i
        e == Encode(GroupPlanes(a[1], g))
    IN  IF i > LastGroup(num) THEN Run(<<>>, Return(None))
        ELSE AndThen(
                AndThen(SetBmp(g, e.size),
                        AndThen(Run(<< PrintEv("uploading...") >>,
                                    Return(None)),
                                BmpLoad(e.imagedata, e.size))),
                UploadLoop(a, i + 1))

\* defsequence(images, exp, ti, dt, to, rep), a the argument tuple
DefSequence(a) ==
    IF SelfCall("stopsequence").exc # ""
    THEN Run(<<>>, SelfCall("stopsequence"))
    ELSE AndThen(GroupLoop(a, 0),
                 AndThen(Run(<<>>, SelfCall("configurelut")),
                         UploadLoop(a, 0)))

\* largest blob size and longest sequence enumerated
MaxSize == 1100
MaxPatterns == 60

BmpSizes == 0..MaxSize
PatternCounts == 1..MaxPatterns
ExposureTimes == {1000000, 15000}
Repetitions == {0, 1}
BmpIndexes == {0, 1, 2, 31}
BmpTotals == {0, 92, 1100, 70000}
PatternArgs ==
    {0, 29, 65535} \X ExposureTimes \X {1, 3, 8}
    \X {<<"1", "1", "1">>, <<"0", "0", "1">>}
    \X BOOLEAN \X {0, 70000} \X {0, 1} \X {0, 1, 2047} \X {0, 5, 23}

InitUpload ==
    /\ current_mode = "pattern"
    /\ trace = <<>>
    /\ result = Pending
    /\ \/ \E a \in PatternArgs :
            call = [op |-> "definepattern", args |-> a, before |-> "pattern"]
       \/ \E index \in BmpIndexes, size \in BmpTotals :
            call = [op |-> "setbmp", args |-> <<index, size>>,
                    before |-> "pattern"]
       \/ \E size \in BmpSizes, gen \in 1..MaxGen :
            call = [op |-> "bmpload", args |-> <<Payload(size, gen), size>>,
                    before |-> "pattern"]
       \/ \E num \in PatternCounts, exposure \in ExposureTimes,
             triggerin \in BOOLEAN, rep \in Repetitions :
            call = [op |-> "defsequence",
                    args |-> << [j \in 1..num |-> j], Repeat(exposure, num),
                                Repeat(triggerin, num), Repeat(0, num),
                                Repeat(1, num), rep >>,
                    before |-> "pattern"]

\* the assignments a run makes
Ran(run) ==
    /\ trace' = run.trace
    /\ result' = run.result
    /\ UNCHANGED <<current_mode, call>>

definepattern ==
    /\ call.op = "definepattern"
    /\ result.exc = "pending"
    /\ Ran(DefinePattern(call.args))

setbmp ==
    /\ call.op = "setbmp"
    /\ result.exc = "pending"
    /\ Ran(SetBmp(call.args[1], call.args[2]))

bmpload ==
    /\ call.op = "bmpload"
    /\ result.exc = "pending"
    /\ Ran(BmpLoad(call.args[1], call.args[2]))

defsequence ==
    /\ call.op = "defsequence"
    /\ result.exc = "pending"
    /\ Ran(DefSequence(call.args))

NextUpload == definepattern \/ setbmp \/ bmpload \/ defsequence

SpecUpload == InitUpload /\ [][NextUpload]_vars

(***************************************************************************)
(* Properties of send_command, stated on what reached the transport.       *)
(***************************************************************************)
SendDone == call.op = "send_command" /\ result.exc # "pending"
SentMode == call.args[1]
SentSequence == call.args[2]
SentCommand == call.args[3]
SentData == call.args[4]

\* the buffers written by the most recent call, in write order
Written ==
    LET w == SelectSeq(trace, LAMBDA e : e.op = "write")
    IN  [i \in 1..Len(w) |-> w[i].buf]

RECURSIVE Concat(_)
Concat(ss) == IF Len(ss) = 0 THEN <<>> ELSE ss[1] \o Concat(Tail(ss))

StandbyCall ==
    /\ SentMode = "w" /\ SentSequence = 0 /\ SentCommand = 512
    /\ SentData = <<1>>

\* C1: the first six bytes written are the flag byte (0xC0 read, 0x40
\* write), the sequence byte, len(payload)+2 little-endian and the command
\* little-endian; the standby write is 40 00 03 00 00 02 01 and 57 zeros.
C1_Header ==
    SendDone =>
        /\ Len(Written) >= 1
        /\ LET w == Written[1]
               n == Len(SentData) + 2
           IN  /\ Len(w) >= 6
               /\ w[1] = (IF SentMode = "r" THEN 192 ELSE 64)
               /\ w[2] = SentSequence
               /\ w[3] = n % 256
               /\ w[4] = n \div 256
               /\ w[5] = SentCommand % 256
               /\ w[6] = SentCommand \div 256
        /\ StandbyCall =>
             Written = << <<64, 0, 3, 0, 0, 2, 1>> \o [i \in 1..57 |-> 0] >>

C1_Witness == SendDone /\ StandbyCall /\ Len(trace) = 1

\* C2: one call writes 1 report when the payload has at most 58 bytes and
\* 1 + ceil((L-58)/64) reports otherwise.
C2_ReportCount ==
    SendDone =>
        LET L == Len(SentData)
        IN  Len(Written) = IF L <= 58 THEN 1 ELSE 1 + ((L - 58) + 63) \div 64

C2_Witness == SendDone /\ Len(SentData) = 505 /\ Len(Written) = 8

\* C3: every report written is exactly 64 bytes long, whatever the payload
\* length, and a multi-report frame starts with header plus 58 payload bytes.
C3_ReportSize ==
    SendDone =>
        /\ \A i \in 1..Len(Written) : Len(Written[i]) = 64
        /\ Len(SentData) > 58 =>
             SubSeq(Written[1], 7, 64) = SubSeq(SentData, 1, 58)

C3_Witness ==
    SendDone /\ Len(SentData) = 59 /\ Len(Written) = 2 /\ Len(Written[2]) = 64

\* C4: the reports concatenated in write order are the 6 header bytes, then
\* the payload unchanged, then only zero padding.
C4_Reassembly ==
    SendDone =>
        LET cat == Concat(Written)
            L == Len(SentData)
        IN  /\ Len(cat) >= 6 + L
            /\ SubSeq(cat, 7, 6 + L) = SentData
            /\ \A i \in (7 + L)..Len(cat) : cat[i] = 0

C4_Witness ==
    SendDone /\ Len(SentData) = 123 /\ Len(Written) = 3
             /\ SentData[59] # SentData[60]

(***************************************************************************)
(* Properties of the display mode, stated on the calls, the transport and  *)
(* the tracked mode.                                                       *)
(***************************************************************************)
ModeName(code) ==
    CASE code = 0 -> "video" [] code = 1 -> "pattern"
      [] code = 2 -> "video-pattern" [] code = 3 -> "otf" [] OTHER -> "none"

ModeCode(name) ==
    CASE name = "video" -> 0 [] name = "pattern" -> 1
      [] name = "video-pattern" -> 2 [] name = "otf" -> 3 [] OTHER -> 255

FourModes == {"video", "pattern", "video-pattern", "otf"}

ReadsOf(tr) == SelectSeq(tr, LAMBDA e : e.op = "read")

\* an empty or short reply: no data byte can be taken from it
Transient(reply) == Len(reply) < 5 \/ reply[3] + 256 * reply[4] = 0

\* the mode a reply reports, "none" when it reports no mode
ReportedMode(reply) == IF Transient(reply) THEN "none" ELSE ModeName(reply[5])

\* the mode reported by the last read of a call, "none" without one
LastReported(tr) ==
    IF Len(ReadsOf(tr)) = 0 THEN "none"
    ELSE ReportedMode(ReadsOf(tr)[Len(ReadsOf(tr))].buf)

IsModeSet(e) == e.op = "write" /\ SubSeq(e.buf, 1, 6) = <<64, 0, 3, 0, 27, 26>>
IsModeGet(e) == e.op = "write" /\ SubSeq(e.buf, 1, 6) = <<192, 0, 2, 0, 27, 26>>

SetCalled == call.op = "set_display_mode" /\ call.args[1] \in FourModes
Requested == call.args[1]

\* C5: set_display_mode(VideoPattern) from a tracked mode other than Video
\* fails with the invalid-transition error, touches the transport not at all
\* and leaves the tracked mode; every other request sends the mode-set
\* command first.
C5_TransitionGuard ==
    SetCalled =>
        IF Requested = "video-pattern" /\ call.before # "video"
        THEN /\ result.exc = "ValueError"
             /\ trace = <<>>
             /\ current_mode = call.before
        ELSE /\ Len(trace) >= 1
             /\ trace[1].op = "write"
             /\ SubSeq(trace[1].buf, 1, 7)
                    = <<64, 0, 3, 0, 27, 26, ModeCode(Requested)>>

C5_Witness ==
    /\ SetCalled /\ Requested = "video-pattern" /\ call.before = "otf"
    /\ result.exc = "ValueError" /\ trace = <<>> /\ current_mode = "otf"

\* C6: a legal set_display_mode(m) returns successfully exactly when the
\* mode read back is m, fails with the mode-activation error when another
\* mode is read back, and after a successful return the tracked mode is m.
C6_ReadBackDecides ==
    SetCalled /\ trace # <<>> =>
        /\ result.exc = "" <=> LastReported(trace) = Requested
        /\ LastReported(trace) \in FourModes \ {Requested}
               => result.exc = "ConnectionError"
        /\ result.exc = "" => current_mode = Requested

C6_Witness ==
    /\ SetCalled /\ Requested = "otf" /\ call.before = "pattern"
    /\ result.exc = "" /\ current_mode = "otf"

\* C7 as stated: the tracked mode changes only in a set_display_mode call
\* that succeeds.
C7_OnlySuccessfulSet ==
    current_mode # call.before =>
        call.op = "set_display_mode" /\ result.exc = ""

\* C7 as amended: the tracked mode is written by every mode read that
\* reports a mode, in get_display_mode and in set_display_mode alike: after
\* a call it is the mode reported by the call's last read, also when
\* set_display_mode then fails because that mode is not the requested one;
\* a call whose last read reports no mode, or that reads nothing, leaves it.
C7_TrackedFollowsRead ==
    call.op \in {"get_display_mode", "set_display_mode"} =>
        IF LastReported(trace) # "none"
        THEN current_mode = LastReported(trace)
        ELSE current_mode = call.before

C7_Witness ==
    /\ SetCalled /\ Requested = "video" /\ call.before = "pattern"
    /\ result.exc = "ConnectionError" /\ current_mode = "otf"

\* C8 as stated: the tracked mode becomes VideoPattern only from Video (or
\* stays VideoPattern).
C8_VideoPatternOnlyFromVideo ==
    call.op \in {"get_display_mode", "set_display_mode"}
    /\ current_mode = "video-pattern"
        => call.before \in {"video", "video-pattern"}

\* C8 as amended: from a tracked mode other than Video the tracked mode
\* becomes VideoPattern only by a read in which the device reports
\* VideoPattern, in get_display_mode or in a set_display_mode that requested
\* another mode and fails; never by a request for VideoPattern.
C8_VideoPatternOnlyReported ==
    call.op \in {"get_display_mode", "set_display_mode"}
    /\ current_mode = "video-pattern"
    /\ call.before \notin {"video", "video-pattern"}
        => /\ LastReported(trace) = "video-pattern"
           /\ \/ call.op = "get_display_mode"
              \/ /\ Requested # "video-pattern"
                 /\ result.exc = "ConnectionError"

C8_Witness ==
    /\ call.op = "get_display_mode" /\ call.before = "pattern"
    /\ current_mode = "video-pattern" /\ result.exc = ""

\* C9: a legal set_display_mode sends the mode-set command once, reads the
\* mode once, and once more exactly when the first read came back empty or
\* short; the second read's result is the one used, and its failure is
\* raised.
C9_RetryOnce ==
    SetCalled /\ trace # <<>> =>
        LET r == ReadsOf(trace)
        IN  /\ Len(SelectSeq(trace, IsModeSet)) = 1
            /\ IsModeSet(trace[1])
            /\ Len(SelectSeq(trace, IsModeGet)) = Len(r)
            /\ Len(r) \in {1, 2}
            /\ Len(r) = 2 <=> Transient(r[1].buf)
            /\ Len(r) = 2 /\ Transient(r[2].buf) => result.exc = "IndexError"
            /\ Len(r) = 2 /\ ReportedMode(r[2].buf) = Requested
                   => result.exc = ""

C9_Witness ==
    /\ SetCalled /\ Len(ReadsOf(trace)) = 2 /\ result.exc = ""
    /\ Transient(ReadsOf(trace)[1].buf)

(***************************************************************************)
(* Properties of the status checks.                                        *)
(***************************************************************************)
\* the status byte of the call's reply, -1 when the reply carries none
StatusByte ==
    IF Len(ReadsOf(trace)) # 1 \/ Transient(ReadsOf(trace)[1].buf) THEN -1
    ELSE ReadsOf(trace)[1].buf[5]

Bit(b, k) == (b \div (2 ^ k)) % 2

\* C10: check_communication_status raises the communication error when
\* bit 0 or bit 2 of the status byte is 1 and returns normally when both
\* are 0.
C10_CommunicationBits ==
    call.op = "check_communication_status" /\ StatusByte >= 0 =>
        IF Bit(StatusByte, 0) = 1 \/ Bit(StatusByte, 2) = 1
        THEN result.exc = "DMDerror"
        ELSE result.exc = ""

\* C11: check_system_status raises the memory-test error when bit 0 of the
\* status byte is 0 and returns normally when it is 1.
C11_SystemBit ==
    call.op = "check_system_status" /\ StatusByte >= 0 =>
        IF Bit(StatusByte, 0) = 0
        THEN result.exc = "DMDerror"
        ELSE result.exc = ""

\* the conditions that count as a hardware error, bit 0 the least significant
HardwareErrorCount(b) ==
    (1 - Bit(b, 0)) + Bit(b, 1) + Bit(b, 2) + Bit(b, 3) + Bit(b, 6) + Bit(b, 7)

\* C12: the error count of get_hardware_status is the number of: bit 0
\* clear, bit 1 set, bit 2 set, bit 3 set, bit 6 set, bit 7 set (bit 0 the
\* least significant); bits 4 and 5 do not count.
C12_HardwareCount ==
    call.op = "get_hardware_status" /\ StatusByte >= 0 =>
        /\ result.exc = ""
        /\ result.val.errors = HardwareErrorCount(StatusByte)

\* C13: get_main_status returns six values, element i being bit i of the
\* status byte counted from the least significant bit.
C13_MainBits ==
    call.op = "get_main_status" /\ StatusByte >= 0 =>
        /\ result.exc = ""
        /\ result.val = [i \in 1..6 |-> Bit(StatusByte, i - 1)]

\* what the call printed
Printed == SelectSeq(trace, LAMBDA e : e.op = "print")

\* C14: check_for_error ends without error exactly when the reply carries
\* no data or error code 0; every other code is raised to the caller with
\* its message.
C14_ErrorSurfaced ==
    call.op = "check_for_error" /\ Len(ReadsOf(trace)) = 1
    /\ Len(ReadsOf(trace)[1].buf) >= 5 =>
        IF StatusByte <= 0
        THEN result.exc = "" /\ Printed = <<>>
        ELSE result.exc # ""

(***************************************************************************)
(* Properties of parse_reply.                                              *)
(***************************************************************************)
\* C15: parse_reply fails when the raw reply has fewer than 4 bytes or its
\* length field exceeds the bytes after the 4-byte prefix; otherwise it
\* returns exactly `length` data bytes raw[4 : 4+length] and the error flag
\* is bit 5 of raw[0].
C15_Malformed ==
    call.op = "parse_reply" /\ result.exc # "pending" =>
        LET raw == call.args[1]
        IN  IF Len(raw) < 4 \/ raw[3] + 256 * raw[4] > Len(raw) - 4
            THEN result.exc # ""
            ELSE /\ result.exc = ""
                 /\ result.val.data = SubSeq(raw, 5, 4 + raw[3] + 256 * raw[4])
                 /\ result.val.error_flag = (Bit(raw[1], 5) = 1)

\* C16: parse_reply on the first report written by send_command gives back
\* the sequence byte, the length len(payload)+2, no error flag, and as data
\* the command little-endian followed by the payload bytes of that report.
C16_RoundTrip ==
    call.op = "parse_first_report" =>
        /\ result.exc = ""
        /\ result.val.sequence_byte = SentSequence
        /\ result.val.length = Len(SentData) + 2
        /\ result.val.error_flag = FALSE
        /\ result.val.data
              = << SentCommand % 256, SentCommand \div 256 >>
                \o SubSeq(SentData, 1, Min(Len(SentData), 58))

C16_Witness ==
    /\ call.op = "parse_first_report" /\ Len(SentData) = 100
    /\ result.exc = "" /\ Len(result.val.data) = 60 /\ SentMode = "r"

(***************************************************************************)
(* Properties of the pattern look-up table entries.                        *)
(***************************************************************************)
\* the payload of the one command frame the call wrote
FramePayload ==
    SubSeq(Concat(Written), 7, 4 + Written[1][3] + 256 * Written[1][4])

LE(x, n) == [i \in 1..n |-> (x \div (256 ^ (i - 1))) % 256]

\* C17: setup_pattern_LUT_definition sends 12 bytes: pattern_index LE16,
\* exposure LE24, byte 5 = clear | (bit_depth-1)<<1 | color<<4 | wait<<7,
\* dark time LE24, byte 9 = disable_trigger2_out | extended_bit_depth<<1,
\* image index LE16 with bit_position<<3 or-ed into byte 11.
C17_LutLayout ==
    call.op = "setup_pattern_LUT_definition" /\ result.exc # "pending" =>
        LET a == call.args
        IN  /\ result.exc = ""
            /\ Len(Written) = 1
            /\ SubSeq(Written[1], 1, 6) = <<64, 1, 14, 0, 52, 26>>
            /\ FramePayload
                 = LE(a[1], 2) \o LE(a[4], 3)
                   \o << 0 + 2 * (a[7] - 1) + 16 * a[6] + 128 * 0 >>
                   \o LE(a[5], 3)
                   \o << BoolInt(a[2]) + 2 * BoolInt(a[3]) >>
                   \o << a[8] % 256, (a[8] \div 256) + 8 * a[9] >>

(***************************************************************************)
(* Properties of the sequence upload, stated on the command frames that    *)
(* reached the transport.                                                  *)
(***************************************************************************)
RECURSIVE FrameSplit(_)
\* the reports written, regrouped into command frames: a frame of T bytes
\* (4 header bytes and what its length field counts) takes ceil(T/64) reports
FrameSplit(w) ==
    IF Len(w) = 0 THEN <<>>
    ELSE LET T == 4 + w[1][3] + 256 * w[1][4]
             n == Min((T + 63) \div 64, Len(w))
         IN  << SubSeq(Concat(SubSeq(w, 1, n)), 1, T) >>
             \o FrameSplit(SubSeq(w, n + 1, Len(w)))

Frames == FrameSplit(Written)
FrameCommand(f) == f[5] + 256 * f[6]
FrameData(f) == SubSeq(f, 7, Len(f))
FramesOf(cmds) == SelectSeq(Frames, LAMBDA f : FrameCommand(f) \in cmds)

\* C20: bmpload(image, size) sends size div 504 + 1 frames of command
\* 0x1A2B; every frame but the last carries 504 image bytes, the last
\* size mod 504; each payload is the 2-byte little-endian count followed by
\* that many image bytes, taken from the image in order.
C20_BulkFrames ==
    call.op = "bmpload" /\ result.exc # "pending" =>
        LET image == call.args[1]
            size == call.args[2]
            n == size \div 504 + 1
        IN  /\ Len(Frames) = n
            /\ \A i \in 1..Len(Frames) :
                LET chunk == IF i < n THEN 504 ELSE size % 504
                IN  /\ Frames[i][1] = 64
                    /\ FrameCommand(Frames[i]) = 6699
                    /\ FrameData(Frames[i])
                         = << chunk % 256, chunk \div 256 >>
                           \o SubSeq(image, 504 * (i - 1) + 1,
                                     504 * (i - 1) + chunk)

\* number of image groups of N patterns
GroupCount(N) == (N + 23) \div 24

\* C18: defsequence with N patterns transmits one LUT entry (0x1A34) per
\* pattern j in 0..N-1, in order, with pattern_index j, image group index
\* j div 24 and bit position j mod 24, and declares ceil(N/24) image groups.
C18_Partition ==
    call.op = "defsequence" /\ result.exc # "pending" =>
        LET N == Len(call.args[1])
            lut == FramesOf({6708})
        IN  /\ Len(lut) = N
            /\ Len(FramesOf({6698})) = GroupCount(N)
            /\ \A k \in 1..Len(lut) :
                LET j == k - 1
                    d == FrameData(lut[k])
                IN  /\ Len(d) = 12
                    /\ d[1] + 256 * d[2] = j
                    /\ d[11] + 256 * (d[12] % 8) = j \div 24
                    /\ d[12] \div 8 = j % 24

\* positions in the upload frames (0x1A2A, 0x1A2B) of the slot declarations
SlotPositions(up) == {p \in 1..Len(up) : FrameCommand(up[p]) = 6698}

\* sum of the length prefixes of the bulk frames up[lo..hi]
RECURSIVE CarriedBytes(_, _, _)
CarriedBytes(up, lo, hi) ==
    IF lo > hi THEN 0
    ELSE FrameData(up[lo])[1] + 256 * FrameData(up[lo])[2]
         + CarriedBytes(up, lo + 1, hi)

\* C19: defsequence uploads the image groups in the order G-1, ..., 0; each
\* group's slot declaration (0x1A2A, carrying the group index and the byte
\* count) comes first and is followed by that group's bulk frames, which
\* carry exactly the declared number of bytes, before the next declaration.
C19_ReverseUpload ==
    call.op = "defsequence" /\ result.exc # "pending" =>
        LET G == GroupCount(Len(call.args[1]))
            up == FramesOf({6698, 6699})
            slots == SlotPositions(up)
        IN  /\ Cardinality(slots) = G
            /\ Len(up) > 0 /\ 1 \in slots
            /\ \A p \in slots :
                LET k == Cardinality({q \in slots : q < p})
                    later == {q \in slots : q > p}
                    end == IF later = {} THEN Len(up)
                           ELSE (CHOOSE q \in later :
                                    \A r \in later : q <= r) - 1
                    d == FrameData(up[p])
                IN  /\ d[1] + 256 * d[2] = G - 1 - k
                    /\ end > p
                    /\ d[3] + 256 * d[4] + 65536 * d[5] + 16777216 * d[6]
                         = CarriedBytes(up, p + 1, end)

(***************************************************************************)
(* Properties of the order of transport events.                            *)
(***************************************************************************)
\* the kinds of the transport events, in order
Kinds(tr) == [i \in 1..Len(tr) |-> tr[i].op]

\* the kinds one command must cause: a write per report of its frame of
\* 6 + len bytes, and for a read command the pause and one read after them
CommandKinds(c) ==
    [i \in 1..((6 + Len(c[4]) + 63) \div 64) |-> "write"]
    \o (IF c[1] = "r" THEN <<"sleep", "read">> ELSE <<>>)

RECURSIVE SessionKinds(_)
SessionKinds(cs) ==
    IF Len(cs) = 0 THEN <<>>
    ELSE SessionKinds(SubSeq(cs, 1, Len(cs) - 1)) \o CommandKinds(cs[Len(cs)])

\* C21: over every sequence of commands each read command performs exactly
\* one transport read (endpoint 0x81), after all of its own report writes
\* and before any write of a later command; a write command performs no
\* read and returns no reply.
C21_OneInFlight ==
    call.op = "session" =>
        /\ Kinds(trace) = SessionKinds(call.args)
        /\ \A i \in 1..Len(trace) : trace[i].op = "read" => trace[i].ep = 129
        /\ call.args[Len(call.args)][1] = "w" => result = Return(None)

C21_Witness ==
    /\ call.op = "session" /\ Len(call.args) = 3
    /\ call.args[1][1] = "r" /\ Len(call.args[1][4]) = 130
    /\ call.args[2][1] = "w" /\ call.args[3][1] = "r"
    /\ Kinds(trace) = << "write", "write", "write", "sleep", "read",
                         "write", "write", "sleep", "read" >>

\* a set_display_mode call that passes the transition guard
LegalSet == SetCalled /\ ~(Requested = "video-pattern" /\ call.before # "video")

\* position in the trace of the first transport read
FirstRead == CHOOSE i \in 1..Len(trace) :
                /\ trace[i].op = "read"
                /\ \A k \in 1..(i - 1) : trace[k].op # "read"

\* C22: a legal set_display_mode call first writes the mode-set command
\* (0x1A1B with the requested mode's code), then takes the settle delay, and
\* only then issues the first mode-get and reads; the delay is the same for
\* every requested mode and no mode-get precedes it.
C22_SettleOrder ==
    LegalSet =>
        /\ Len(trace) >= 5
        /\ IsModeSet(trace[1]) /\ trace[1].buf[7] = ModeCode(Requested)
        /\ trace[2].op = "sleep" /\ trace[2].ms = 500
        /\ IsModeGet(trace[3])
        /\ FirstRead = 5
        /\ \A i \in 1..Len(trace) : IsModeGet(trace[i]) => i > 2

C22_Witness ==
    /\ LegalSet /\ Requested = "otf" /\ result.exc = ""
    /\ Kinds(trace) = <<"write", "sleep", "write", "sleep", "read">>
    /\ trace[2].ms = 500

\* the command codes of the frames sent, in order
CommandsSent == [i \in 1..Len(Frames) |-> FrameCommand(Frames[i])]

\* C23: defsequence with N patterns first stops the running sequence
\* (0x1A24 with data 0), then defines the N LUT entries (0x1A34), then
\* sends exactly one playback configuration (0x1A31) carrying N and the
\* repeat count, and only then declares image slots and uploads bitmaps
\* (0x1A2A, 0x1A2B).
C23_PhaseOrder ==
    call.op = "defsequence" /\ result.exc # "pending" =>
        LET N == Len(call.args[1])
        IN  /\ Len(Frames) > N + 2
            /\ CommandsSent[1] = 6692 /\ FrameData(Frames[1]) = <<0>>
            /\ \A i \in 2..(N + 1) : CommandsSent[i] = 6708
            /\ CommandsSent[N + 2] = 6705
            /\ FrameData(Frames[N + 2])
                 = << N % 256, N \div 256 >> \o LE(call.args[6], 4)
            /\ \A i \in (N + 3)..Len(Frames) : CommandsSent[i] \in {6698, 6699}

\* the value of a 3-character bit string, most significant bit first
MaskValue(c) ==
    (IF c[1] = "1" THEN 4 ELSE 0) + (IF c[2] = "1" THEN 2 ELSE 0)
    + (IF c[3] = "1" THEN 1 ELSE 0)

\* C24: definepattern sends on 0x1A34 a payload of exactly 12 bytes: index
\* LE16, exposure LE24, byte 5 with bits 1-3 = bit_depth-1, bits 4-6 = the
\* colour mask and bit 7 = wait-for-trigger, dark time LE24 in bytes 6-8,
\* and bytes 10-11 the little-endian (bit_position << 11) | image index.
C24_DefinePatternLayout ==
    call.op = "definepattern" /\ result.exc # "pending" =>
        LET a == call.args
            d == FramePayload
        IN  /\ Len(Written) = 1
            /\ SubSeq(Written[1], 1, 6) = <<64, 0, 14, 0, 52, 26>>
            /\ Len(d) = 12
            /\ SubSeq(d, 1, 2) = LE(a[1], 2)
            /\ SubSeq(d, 3, 5) = LE(a[2], 3)
            /\ (d[6] \div 2) % 8 = a[3] - 1
            /\ (d[6] \div 16) % 8 = MaskValue(a[4])
            /\ d[6] \div 128 = BoolInt(a[5])
            /\ SubSeq(d, 7, 9) = LE(a[6], 3)
            /\ d[11] + 256 * d[12] = 2048 * a[9] + a[8]

C24_Witness ==
    /\ call.op = "definepattern" /\ result.exc # "pending"
    /\ call.args = << 65535, 1000000, 3, <<"0", "0", "1">>, TRUE, 70000, 1,
                      2047, 23 >>
    /\ FramePayload = <<255, 255, 64, 66, 15, 149, 112, 17, 1, 1, 255, 191>>

\* C25: start_pattern_from_LUT sends on 0x1A31 a payload of exactly 6
\* bytes: nr_of_LUT_entries as two little-endian bytes (value mod 256, value
\* div 256), then nr_of_patterns_to_display as four little-endian bytes.
C25_StartPayload ==
    call.op = "start_pattern_from_LUT" /\ result.exc # "pending" =>
        /\ result.exc = ""
        /\ Len(Written) = 1
        /\ SubSeq(Written[1], 1, 6) = <<64, 1, 8, 0, 49, 26>>
        /\ FramePayload
             = << call.args[1] % 256, call.args[1] \div 256 >>
               \o LE(call.args[2], 4)

====
